---- MODULE Spec2Model ----
(***************************************************************************)
(* The connection pool of react-native-quick-sqlite (cpp/sqliteBridge.cpp  *)
(* and the ConnectionPool methods that follow it in the same file): one    *)
(* write connection, maxReads read connections, two wait queues of        *)
(* context IDs, and the lock slot of every connection.                    *)
(*                                                                         *)
(* Connections are numbered as getAllConnections() returns them: 0 is the  *)
(* write connection, 1..maxReads are readConnections[0..maxReads-1].       *)
(***************************************************************************)
EXTENDS Integers, Sequences, FiniteSets, TLC

\* ---------------------------------------------------------------- bounds
MaxReads == 2
MaxCtx == 3
MaxQueue == 2
MaxWork == 1
MaxReuse == 1
MaxRegistryReads == 1
MaxRegistryCtx == 2
MaxThreadCtx == 2

\* ------------------------------------------------------------- constants
\* The value of an empty lock slot (ConnectionState's EMPTY_LOCK_ID); no
\* context ID a caller passes equals it.
NoCtx == 0
ContextIds == 1..MaxCtx
LockTypes == {"ReadLock", "WriteLock"}
Aliases == {"x"}
Tasks == {"task"}
SetupTask == "task"

SQLiteOk == "SQLiteOk"
SQLiteError == "SQLiteError"
NotAvailableMsg == "Context is no longer available"
LockedMsg == "Some DB connections were locked"
SqlFailedMsg == "sqlite error"
AlreadyOpenMsg == "is already open"
NotOpenMsg == "is not open"
LiteralNotOpenMsg == "SQL execution error: is not open."

\* The database names callers pass. The model follows the pool of one
\* name, TrackedDb; the other name is one no caller opens.
TrackedDb == "db"
DbNames == {"db", "other"}

\* A null ConnectionPool pointer in dbMap, and the pointer to the pool that
\* exists.
NullPool == 0
LivePool == 1

\* The threads that call into one pool at the same time.
Threads == {1, 2}

VARIABLES
    maxReads,          \* ConnectionPool::maxReads (numReadConnections)
    writeConnection,   \* ConnectionPool::writeConnection (a ConnectionState)
    readConnections,   \* ConnectionPool::readConnections, indexed 1..maxReads
    readQueue,         \* ConnectionPool::readQueue
    writeQueue,        \* ConnectionPool::writeQueue
    activations,       \* the activateContext calls of the last step, each with
                       \* the callback it made
    lastOp,            \* the last entry point a caller ran, with its arguments
    lastResult,        \* the SQLiteOPResult the last call returned
    sqlLog,            \* the statements the last call ran on the connections'
                       \* handles from the caller's thread, in order
    pending,           \* history: the requests no callback has answered yet,
                       \* oldest first
    reuses,            \* history: how many requests named an ID that was
                       \* still queued or held
    readRun,           \* history: the read requests made since the readers were
                       \* all idle with nothing queued; Broken after a release
    dbMap,             \* the global dbMap: a function from the names present
                       \* to what each maps to (NullPool: a null pointer;
                       \* LivePool: the pool the fields above describe)
    running,           \* FALSE once the process has crashed
    threads,           \* for every thread inside a pool method: the method,
                       \* its arguments and the statement it is at
    called             \* history: the contexts the callback has fired for
                       \* and release_lock has not been called for since

vars == <<maxReads, writeConnection, readConnections, readQueue, writeQueue,
          activations, lastOp, lastResult, sqlLog, pending, reuses,
          readRun, dbMap, running, threads, called>>

registry == <<dbMap, running>>

concurrent == <<threads, called>>

pool == <<writeConnection, readConnections, readQueue, writeQueue>>

history == <<pending, reuses, readRun>>

Broken == <<-1>>

\* ------------------------------------------------------- ConnectionState
\* A ConnectionState: its lock slot, its work queue, and the aliases
\* attached on its sqlite3 handle.
NewConnectionState == [lock |-> NoCtx, workQueue |-> <<>>, connection |-> {}]

ActivateLock(state, contextId) == [state EXCEPT !.lock = contextId]

MatchesLock(state, contextId) == state.lock = contextId

IsEmptyLock(state) == state.lock = NoCtx

ClearLock(state) == [state EXCEPT !.lock = NoCtx]

QueueWork(state, task) == [state EXCEPT !.workQueue = Append(@, task)]

\* ---------------------------------------------------------------- helpers
Range(s) == {s[i] : i \in 1..Len(s)}

Min(S) == CHOOSE x \in S : \A y \in S : x <= y

Connections == 0..maxReads

Conn(c) == IF c = 0 THEN writeConnection ELSE readConnections[c]

IsConcurrencyEnabled == maxReads > 0

ResultOk == [type |-> SQLiteOk, errorMessage |-> ""]

ResultError(msg) == [type |-> SQLiteError, errorMessage |-> msg]

\* A call on the database name dbName.
OpOn(dbName, name, contextId, alias, c) ==
    [op |-> name, ctx |-> contextId, alias |-> alias, conn |-> c,
     db |-> dbName]

Op(name, contextId, alias, c) == OpOn(TrackedDb, name, contextId, alias, c)

\* A thread that is in no pool method.
Idle == [pc |-> "idle", op |-> "", ctx |-> NoCtx, conn |-> 0]

\* The wait queue that feeds connection c.
QueueOfConn(c) == IF c = 0 THEN writeQueue ELSE readQueue

\* The connections whose lock slot holds contextId.
Holders(contextId) == {c \in Connections : MatchesLock(Conn(c), contextId)}

InUse(contextId) ==
    \/ Holders(contextId) # {}
    \/ contextId \in Range(readQueue)
    \/ contextId \in Range(writeQueue)

\* ------------------------------------------------------------------ Init
\* The pool as ConnectionPool's constructor leaves it: every lock slot and
\* both wait queues empty, and, when concurrency is enabled, one set-up
\* task (the PRAGMAs) queued on every connection. A task is an opaque
\* thunk: the set-up task and a caller's task are the same token.
\* sqliteOpenDb has then called setTableUpdateHandler, which registers the
\* update hook on the write connection's handle from the caller's thread.
Init ==
    /\ maxReads \in 0..MaxReads
    /\ writeConnection =
          IF maxReads > 0 THEN QueueWork(NewConnectionState, SetupTask)
                          ELSE NewConnectionState
    /\ readConnections =
          [i \in 1..maxReads |-> QueueWork(NewConnectionState, SetupTask)]
    /\ readQueue = <<>>
    /\ writeQueue = <<>>
    /\ activations = <<>>
    /\ lastOp = Op("open", NoCtx, "", 0)
    /\ lastResult = ResultOk
    /\ sqlLog = <<[conn |-> 0, sql |-> "sqlite3_update_hook", ok |-> TRUE]>>
    /\ pending = <<>>
    /\ reuses = 0
    /\ readRun = <<>>
    /\ dbMap = (TrackedDb :> LivePool)
    /\ running = TRUE
    /\ threads = [t \in Threads |-> Idle]
    /\ called = {}

\* ------------------------------------------------------- ConnectionPool
\* Faulty variants of the queue operations: a push at the front, and an
\* erase that is forgotten.
PushFront(queue, x) == <<x>> \o queue

EraseNothing(queue) == queue

\* std::vector::push_back and erase(begin()) on a wait queue.
PushBack(queue, x) == Append(queue, x)

EraseBegin(queue) == Tail(queue)

\* Faulty variant of FirstEmptyReader: the scan runs from the last reader down.
Max(S) == CHOOSE x \in S : \A y \in S : x >= y

\* The read connections whose lock slot is empty.
EmptyReaders == {i \in 1..maxReads : IsEmptyLock(readConnections[i])}

LastEmptyReader == Max(EmptyReaders)

\* The first read connection the scan of readLock finds with an empty slot.
FirstEmptyReader == Min(EmptyReaders)

\* The read connections whose lock slot holds contextId.
MatchingReaders(contextId) ==
    {i \in 1..maxReads : MatchesLock(readConnections[i], contextId)}

\* The first read connection a scan in index order finds holding contextId.
FirstMatchingReader(contextId) == Min(MatchingReaders(contextId))

\* Faulty variant of ActivateContext: the slot is set and no callback is made.
ActivateContextSilent(c, contextId) ==
    /\ IF c = 0
       THEN /\ writeConnection' = ActivateLock(writeConnection, contextId)
            /\ UNCHANGED readConnections
       ELSE /\ readConnections' =
                  [readConnections EXCEPT ![c] = ActivateLock(@, contextId)]
            /\ UNCHANGED writeConnection
    /\ activations' = <<>>

\* activateContext on connection c: set the slot, then call the callback.
\* The record keeps what held at the call: the slot's content before
\* activateLock, and whether contextId was in a wait queue when the
\* callback ran (the queues are as the caller found them: a hand-off
\* erases the queue head only after activateContext returns).
ActivateContext(c, contextId) ==
    /\ IF c = 0
       THEN /\ writeConnection' = ActivateLock(writeConnection, contextId)
            /\ UNCHANGED readConnections
       ELSE /\ readConnections' =
                  [readConnections EXCEPT ![c] = ActivateLock(@, contextId)]
            /\ UNCHANGED writeConnection
    /\ activations' =
          <<[conn |-> c, ctx |-> contextId, slotBefore |-> Conn(c).lock,
             queued |-> contextId \in Range(readQueue) \cup Range(writeQueue)]>>

\* Faulty variant of WriteLock: the slot is taken without the isEmptyLock() test.
WriteLockUnchecked(contextId) ==
    /\ ActivateContext(0, contextId)
    /\ UNCHANGED <<writeQueue, readQueue>>

WriteLock(contextId) ==
    /\ IF IsEmptyLock(writeConnection)
       THEN /\ ActivateContext(0, contextId)
            /\ UNCHANGED writeQueue
       ELSE /\ writeQueue' = PushBack(writeQueue, contextId)
            /\ activations' = <<>>
            /\ UNCHANGED <<writeConnection, readConnections>>
    /\ UNCHANGED readQueue

\* Faulty variant of ReadLock: a request is queued as soon as one reader is
\* busy, not only when all of them are.
ReadLockQueuesWhenBusy(contextId) ==
    IF ~IsConcurrencyEnabled
    THEN WriteLock(contextId)
    ELSE /\ IF Len(readQueue) = 0 /\ EmptyReaders = 1..maxReads
            THEN /\ ActivateContext(FirstEmptyReader, contextId)
                 /\ UNCHANGED readQueue
            ELSE /\ readQueue' = PushBack(readQueue, contextId)
                 /\ activations' = <<>>
                 /\ UNCHANGED <<writeConnection, readConnections>>
         /\ UNCHANGED writeQueue

\* Faulty variant of ReadLock: the delegation to writeLock on a pool without
\* read connections is missing.
ReadLockNoDelegate(contextId) ==
    /\ IF Len(readQueue) = 0 /\ EmptyReaders # {}
       THEN /\ ActivateContext(FirstEmptyReader, contextId)
            /\ UNCHANGED readQueue
       ELSE /\ readQueue' = PushBack(readQueue, contextId)
            /\ activations' = <<>>
            /\ UNCHANGED <<writeConnection, readConnections>>
    /\ UNCHANGED writeQueue

ReadLock(contextId) ==
    IF ~IsConcurrencyEnabled
    THEN WriteLock(contextId)
    ELSE /\ IF Len(readQueue) = 0 /\ EmptyReaders # {}
            THEN /\ ActivateContext(FirstEmptyReader, contextId)
                 /\ UNCHANGED readQueue
            ELSE /\ readQueue' = PushBack(readQueue, contextId)
                 /\ activations' = <<>>
                 /\ UNCHANGED <<writeConnection, readConnections>>
         /\ UNCHANGED writeQueue

\* Faulty variant of CloseContext: the released slot is always cleared, and the
\* head of the wait queue is forgotten.
CloseContextNoHandOff(contextId) ==
    /\ IF MatchesLock(writeConnection, contextId)
       THEN /\ writeConnection' = ClearLock(writeConnection)
            /\ UNCHANGED readConnections
       ELSE IF MatchingReaders(contextId) # {}
       THEN /\ readConnections' =
                  [readConnections EXCEPT
                      ![FirstMatchingReader(contextId)] = ClearLock(@)]
            /\ UNCHANGED writeConnection
       ELSE UNCHANGED <<writeConnection, readConnections>>
    /\ activations' = <<>>
    /\ UNCHANGED <<readQueue, writeQueue>>

\* Faulty variant of CloseContext: a context that holds no slot is taken out of
\* the write wait queue.
CloseContextCancels(contextId) ==
    /\ writeQueue' = SelectSeq(writeQueue, LAMBDA x : x # contextId)
    /\ activations' = <<>>
    /\ UNCHANGED <<writeConnection, readConnections, readQueue>>

\* Faulty variant of CloseContext: the release of a context that holds no slot
\* withdraws its request from the wait queues.
CloseContextDropsWaiter(contextId) ==
    IF MatchesLock(writeConnection, contextId)
    THEN /\ IF Len(writeQueue) > 0
            THEN /\ ActivateContext(0, writeQueue[1])
                 /\ writeQueue' = EraseBegin(writeQueue)
            ELSE /\ writeConnection' = ClearLock(writeConnection)
                 /\ activations' = <<>>
                 /\ UNCHANGED <<readConnections, writeQueue>>
         /\ UNCHANGED readQueue
    ELSE IF MatchingReaders(contextId) # {}
    THEN LET i == FirstMatchingReader(contextId) IN
         /\ IF Len(readQueue) > 0
            THEN /\ ActivateContext(i, readQueue[1])
                 /\ readQueue' = EraseBegin(readQueue)
            ELSE /\ readConnections' =
                       [readConnections EXCEPT ![i] = ClearLock(@)]
                 /\ activations' = <<>>
                 /\ UNCHANGED <<writeConnection, readQueue>>
         /\ UNCHANGED writeQueue
    ELSE /\ readQueue' = SelectSeq(readQueue, LAMBDA x : x # contextId)
         /\ writeQueue' = SelectSeq(writeQueue, LAMBDA x : x # contextId)
         /\ activations' = <<>>
         /\ UNCHANGED <<writeConnection, readConnections>>

\* Faulty variant of CloseContext: a released reader is always cleared; only
\* the write connection is handed to the head of its queue.
CloseContextReaderCleared(contextId) ==
    IF MatchesLock(writeConnection, contextId)
    THEN /\ IF Len(writeQueue) > 0
            THEN /\ ActivateContext(0, writeQueue[1])
                 /\ writeQueue' = EraseBegin(writeQueue)
            ELSE /\ writeConnection' = ClearLock(writeConnection)
                 /\ activations' = <<>>
                 /\ UNCHANGED <<readConnections, writeQueue>>
         /\ UNCHANGED readQueue
    ELSE IF MatchingReaders(contextId) # {}
    THEN /\ readConnections' =
               [readConnections EXCEPT
                   ![FirstMatchingReader(contextId)] = ClearLock(@)]
         /\ activations' = <<>>
         /\ UNCHANGED <<writeConnection, readQueue, writeQueue>>
    ELSE /\ activations' = <<>>
         /\ UNCHANGED pool

CloseContext(contextId) ==
    IF MatchesLock(writeConnection, contextId)
    THEN /\ IF Len(writeQueue) > 0
            THEN /\ ActivateContext(0, writeQueue[1])
                 /\ writeQueue' = EraseBegin(writeQueue)
            ELSE /\ writeConnection' = ClearLock(writeConnection)
                 /\ activations' = <<>>
                 /\ UNCHANGED <<readConnections, writeQueue>>
         /\ UNCHANGED readQueue
    ELSE IF MatchingReaders(contextId) # {}
    THEN LET i == FirstMatchingReader(contextId) IN
         /\ IF Len(readQueue) > 0
            THEN /\ ActivateContext(i, readQueue[1])
                 /\ readQueue' = EraseBegin(readQueue)
            ELSE /\ readConnections' =
                       [readConnections EXCEPT ![i] = ClearLock(@)]
                 /\ activations' = <<>>
                 /\ UNCHANGED <<writeConnection, readQueue>>
         /\ UNCHANGED writeQueue
    ELSE /\ activations' = <<>>
         /\ UNCHANGED pool

\* Faulty variant of ContextState: the read connections are not searched.
ContextStateWriterOnly(contextId) ==
    IF MatchesLock(writeConnection, contextId) THEN 0 ELSE -1

\* The connection queueInContext picks for contextId, -1 for nullptr.
ContextState(contextId) ==
    IF MatchesLock(writeConnection, contextId) THEN 0
    ELSE IF MatchingReaders(contextId) # {}
         THEN FirstMatchingReader(contextId)
         ELSE -1

QueueInContext(contextId, task) ==
    LET state == ContextState(contextId) IN
    IF state = -1
    THEN /\ lastResult' = ResultError(NotAvailableMsg)
         /\ UNCHANGED <<writeConnection, readConnections>>
    ELSE /\ IF state = 0
            THEN /\ writeConnection' = QueueWork(writeConnection, task)
                 /\ UNCHANGED readConnections
            ELSE /\ readConnections' =
                       [readConnections EXCEPT ![state] = QueueWork(@, task)]
                 /\ UNCHANGED writeConnection
         /\ lastResult' = ResultOk

\* ------------------------------------------------------ history updates
\* s without its first entry whose context ID is contextId.
RECURSIVE RemoveFirst(_, _)
RemoveFirst(s, contextId) ==
    IF s = <<>> THEN <<>>
    ELSE IF Head(s).ctx = contextId THEN Tail(s)
    ELSE <<Head(s)>> \o RemoveFirst(Tail(s), contextId)

RECURSIVE RemoveAll(_, _)
RemoveAll(s, fired) ==
    IF fired = <<>> THEN s
    ELSE RemoveAll(RemoveFirst(s, Head(fired).ctx), Tail(fired))

AllReadersIdle(readers, queue) ==
    /\ \A i \in 1..maxReads : IsEmptyLock(readers[i])
    /\ queue = <<>>

ReadRunAfter(isRelease, isRead, contextId) ==
    IF AllReadersIdle(readConnections', readQueue') THEN <<>>
    ELSE IF isRelease THEN Broken
    ELSE IF isRead /\ readRun # Broken THEN Append(readRun, contextId)
    ELSE readRun

\* -------------------------------------------------------- entry points
SqliteRequestLock(contextId, lockType) ==
    /\ InUse(contextId) => reuses < MaxReuse
    /\ Len(readQueue) < MaxQueue
    /\ Len(writeQueue) < MaxQueue
    /\ IF lockType = "ReadLock"
       THEN ReadLock(contextId)
       ELSE WriteLock(contextId)
    /\ lastOp' = Op(IF lockType = "ReadLock" THEN "requestRead"
                                             ELSE "requestWrite",
                    contextId, "", 0)
    /\ lastResult' = ResultOk
    /\ sqlLog' = <<>>
    /\ pending' = RemoveAll(Append(pending, [ctx |-> contextId,
                                             kind |-> lockType]), activations')
    /\ reuses' = IF InUse(contextId) THEN reuses + 1 ELSE reuses
    /\ readRun' = ReadRunAfter(FALSE, lockType = "ReadLock", contextId)
    /\ UNCHANGED <<maxReads, registry, concurrent>>

SqliteReleaseLock(contextId) ==
    /\ CloseContext(contextId)
    /\ lastOp' = Op("release", contextId, "", 0)
    /\ pending' = RemoveAll(pending, activations')
    /\ readRun' = ReadRunAfter(TRUE, FALSE, contextId)
    /\ sqlLog' = <<>>
    /\ UNCHANGED <<maxReads, lastResult, reuses, registry, concurrent>>

SqliteQueueInContext(contextId, task) ==
    /\ ContextState(contextId) # -1 =>
          Len(Conn(ContextState(contextId)).workQueue) < MaxWork
    /\ QueueInContext(contextId, task)
    /\ lastOp' = Op("queueInContext", contextId, "", 0)
    /\ activations' = <<>>
    /\ sqlLog' = <<>>
    /\ UNCHANGED <<maxReads, readQueue, writeQueue>>
    /\ UNCHANGED <<history, registry, concurrent>>

\* The worker thread of connection c runs the task at the head of its queue.
WorkerRun(c) ==
    /\ Len(Conn(c).workQueue) > 0
    /\ IF c = 0
       THEN /\ writeConnection' = [writeConnection EXCEPT !.workQueue = Tail(@)]
            /\ UNCHANGED readConnections
       ELSE /\ readConnections' =
                  [readConnections EXCEPT ![c].workQueue = Tail(@)]
            /\ UNCHANGED writeConnection
    /\ UNCHANGED <<maxReads, readQueue, writeQueue, activations, lastOp,
                   lastResult, sqlLog>>
    /\ UNCHANGED <<history, registry, concurrent>>

\* ------------------------------------------------------ attach / detach
\* getAllConnections(): the write connection, then the read connections.
GetAllConnections == [c \in Connections |-> Conn(c)]

\* sqliteExecuteLiteralWithDB(handle, "ATTACH DATABASE ... AS alias"): fails
\* when SQLite refuses the file (fails) or the alias is already in use.
AttachSucceeds(state, alias, fails) == ~fails /\ alias \notin state.connection

\* sqliteExecuteLiteralWithDB(handle, "DETACH DATABASE alias"): succeeds
\* exactly when the alias is attached on the handle.
DetachSucceeds(state, alias) == alias \in state.connection

\* The loop of attachDatabase from connection k on: run ATTACH on each
\* connection in turn and stop at the first failure. failAt is the
\* connection on which SQLite refuses the file (maxReads + 1: none).
RECURSIVE AttachLoop(_, _, _, _, _)
AttachLoop(conns, log, k, alias, failAt) ==
    IF k > maxReads
    THEN [conns |-> conns, log |-> log, failedAt |-> -1]
    ELSE IF AttachSucceeds(conns[k], alias, k = failAt)
    THEN AttachLoop([conns EXCEPT ![k].connection = @ \cup {alias}],
                    Append(log, [conn |-> k, sql |-> "ATTACH", ok |-> TRUE]),
                    k + 1, alias, failAt)
    ELSE [conns |-> conns,
          log |-> Append(log, [conn |-> k, sql |-> "ATTACH", ok |-> FALSE]),
          failedAt |-> k]

\* The loop of detachDatabase from connection k on.
RECURSIVE DetachLoop(_, _, _, _)
DetachLoop(conns, log, k, alias) ==
    IF k > maxReads
    THEN [conns |-> conns, log |-> log, failedAt |-> -1]
    ELSE IF DetachSucceeds(conns[k], alias)
    THEN DetachLoop([conns EXCEPT ![k].connection = @ \ {alias}],
                    Append(log, [conn |-> k, sql |-> "DETACH", ok |-> TRUE]),
                    k + 1, alias)
    ELSE [conns |-> conns,
          log |-> Append(log, [conn |-> k, sql |-> "DETACH", ok |-> FALSE]),
          failedAt |-> k]

\* The check both methods make before running any statement: they return
\* the "locked" error as soon as a connection's isEmptyLock() is true.
LockCheckFails(conns) == \E c \in Connections : IsEmptyLock(conns[c])

\* detachDatabase on the connections conns, with log the statements run so far.
DetachDatabase(conns, log, alias) ==
    IF LockCheckFails(conns)
    THEN [conns |-> conns, log |-> log, result |-> ResultError(LockedMsg)]
    ELSE LET r == DetachLoop(conns, log, 0, alias) IN
         [conns |-> r.conns, log |-> r.log,
          result |-> IF r.failedAt = -1 THEN ResultOk
                                        ELSE ResultError(SqlFailedMsg)]

\* Faulty variant of AttachDatabase: a failed ATTACH returns without the revert.
AttachDatabaseNoRevert(conns, alias, failAt) ==
    IF LockCheckFails(conns)
    THEN [conns |-> conns, log |-> <<>>, result |-> ResultError(LockedMsg)]
    ELSE LET r == AttachLoop(conns, <<>>, 0, alias, failAt) IN
         [conns |-> r.conns, log |-> r.log,
          result |-> IF r.failedAt = -1 THEN ResultOk
                                        ELSE ResultError(SqlFailedMsg)]

\* attachDatabase: on a failed ATTACH it calls detachDatabase(alias) to
\* revert, and returns the ATTACH error.
AttachDatabase(conns, alias, failAt) ==
    IF LockCheckFails(conns)
    THEN [conns |-> conns, log |-> <<>>, result |-> ResultError(LockedMsg)]
    ELSE LET r == AttachLoop(conns, <<>>, 0, alias, failAt) IN
         IF r.failedAt = -1
         THEN [conns |-> r.conns, log |-> r.log, result |-> ResultOk]
         ELSE LET d == DetachDatabase(r.conns, r.log, alias) IN
              [conns |-> d.conns, log |-> d.log,
               result |-> ResultError(SqlFailedMsg)]

\* Store what attachDatabase / detachDatabase returned.
SetConnections(r) ==
    /\ writeConnection' = r.conns[0]
    /\ readConnections' = [i \in 1..maxReads |-> r.conns[i]]
    /\ sqlLog' = r.log
    /\ lastResult' = r.result

SqliteAttachDb(alias, failAt) ==
    /\ SetConnections(AttachDatabase(GetAllConnections, alias, failAt))
    /\ lastOp' = Op("attach", NoCtx, alias, 0)
    /\ activations' = <<>>
    /\ UNCHANGED <<maxReads, readQueue, writeQueue>>
    /\ UNCHANGED <<history, registry, concurrent>>

SqliteDetachDb(alias) ==
    /\ SetConnections(DetachDatabase(GetAllConnections, <<>>, alias))
    /\ lastOp' = Op("detach", NoCtx, alias, 0)
    /\ activations' = <<>>
    /\ UNCHANGED <<maxReads, readQueue, writeQueue>>
    /\ UNCHANGED <<history, registry, concurrent>>

\* --------------------------------------------------------------- registry
\* dbMap.count(dbName)
Count(dbName) == IF dbName \in DOMAIN dbMap THEN 1 ELSE 0

\* dbMap.erase(dbName)
Erase(dbName) == [n \in DOMAIN dbMap \ {dbName} |-> dbMap[n]]

\* dbMap[dbName] = entry
Insert(dbName, entry) ==
    [n \in DOMAIN dbMap \cup {dbName} |->
        IF n = dbName THEN entry ELSE dbMap[n]]

\* The name is mapped to a pool that exists.
IsLive(dbName) == dbName \in DOMAIN dbMap /\ dbMap[dbName] # NullPool

generateNotOpenResult == ResultError(NotOpenMsg)

\* What a call that went through a null pointer can return: success, or
\* an error.
Results == {ResultOk, ResultError(SqlFailedMsg)}

\* new ConnectionPool(dbName, docPath, numReadConnections): the fields as
\* the constructor leaves them.
NewConnectionPool(numReadConnections) ==
    /\ maxReads' = numReadConnections
    /\ writeConnection' =
          IF numReadConnections > 0
          THEN QueueWork(NewConnectionState, SetupTask)
          ELSE NewConnectionState
    /\ readConnections' =
          [i \in 1..numReadConnections |->
              QueueWork(NewConnectionState, SetupTask)]
    /\ readQueue' = <<>>
    /\ writeQueue' = <<>>

\* delete connection: the pool is gone, and so is what the model kept of
\* it (the fields are set to fixed values nothing reads).
DeleteConnectionPool ==
    /\ maxReads' = 0
    /\ writeConnection' = NewConnectionState
    /\ readConnections' = <<>>
    /\ readQueue' = <<>>
    /\ writeQueue' = <<>>
    /\ pending' = <<>>
    /\ reuses' = 0
    /\ readRun' = <<>>

\* A call that returns at its dbMap.count() test with result r; it has read
\* none of its other arguments.
ReturnEarly(op, r) ==
    /\ lastOp' = [op EXCEPT !.ctx = NoCtx, !.alias = ""]
    /\ lastResult' = r
    /\ activations' = <<>>
    /\ sqlLog' = <<>>
    /\ UNCHANGED <<maxReads, pool, history, registry, concurrent>>

\* A method call through the null pointer dbMap holds for a name: undefined
\* behaviour. The process crashes, or the method comes back, the entry
\* point runs to its end (leaving dbMap as mapAfter) and returns some
\* result.
NullCall(op, mapAfter) ==
    /\ lastOp' = op
    /\ activations' = <<>>
    /\ sqlLog' = <<>>
    /\ \/ running' = FALSE /\ UNCHANGED <<lastResult, dbMap>>
       \/ running' = TRUE /\ lastResult' \in Results /\ dbMap' = mapAfter
    /\ UNCHANGED <<maxReads, pool, history, concurrent>>

\* Faulty variant of SqliteOpenDb: the test for a name already open is
\* missing, and the entry is overwritten with a new pool.
SqliteOpenDbOverwrite(dbName, numReadConnections) ==
    /\ running
    /\ NewConnectionPool(numReadConnections)
    /\ dbMap' = Insert(dbName, LivePool)
    /\ lastOp' = OpOn(dbName, "open", NoCtx, "", 0)
    /\ lastResult' = ResultOk
    /\ activations' = <<>>
    /\ sqlLog' = <<>>
    /\ pending' = <<>>
    /\ reuses' = 0
    /\ readRun' = <<>>
    /\ UNCHANGED <<running, concurrent>>

\* sqliteOpenDb. setTableUpdateHandler calls sqlite3_update_hook on the write
\* connection's handle in the caller's thread.
SqliteOpenDb(dbName, numReadConnections) ==
    /\ running
    /\ IF Count(dbName) = 1
       THEN ReturnEarly(OpOn(dbName, "open", NoCtx, "", 0),
                        ResultError(AlreadyOpenMsg))
       ELSE /\ NewConnectionPool(numReadConnections)
            /\ dbMap' = Insert(dbName, LivePool)
            /\ lastOp' = OpOn(dbName, "open", NoCtx, "", 0)
            /\ lastResult' = ResultOk
            /\ activations' = <<>>
            /\ sqlLog' = <<[conn |-> 0, sql |-> "sqlite3_update_hook",
                            ok |-> TRUE]>>
            /\ pending' = <<>>
            /\ reuses' = 0
            /\ readRun' = <<>>
            /\ UNCHANGED <<running, concurrent>>

\* The part of sqliteCloseDb after its dbMap.count() test, on a pool that
\* exists: closeAll(), delete, erase.
CloseLive(dbName) ==
    /\ DeleteConnectionPool
    /\ dbMap' = Erase(dbName)

\* Faulty variant of SqliteCloseDb: the pool is closed and deleted and its
\* entry stays in dbMap.
SqliteCloseDbKeepsEntry(dbName) ==
    /\ running
    /\ IF Count(dbName) = 0
       THEN ReturnEarly(OpOn(dbName, "close", NoCtx, "", 0),
                        generateNotOpenResult)
       ELSE IF dbMap[dbName] = NullPool
       THEN NullCall(OpOn(dbName, "close", NoCtx, "", 0), Erase(dbName))
       ELSE /\ DeleteConnectionPool
            /\ dbMap' = Insert(dbName, NullPool)
            /\ lastOp' = OpOn(dbName, "close", NoCtx, "", 0)
            /\ lastResult' = ResultOk
            /\ activations' = <<>>
            /\ sqlLog' = <<>>
            /\ UNCHANGED <<running, concurrent>>

SqliteCloseDb(dbName) ==
    /\ running
    /\ IF Count(dbName) = 0
       THEN ReturnEarly(OpOn(dbName, "close", NoCtx, "", 0),
                        generateNotOpenResult)
       ELSE IF dbMap[dbName] = NullPool
       THEN NullCall(OpOn(dbName, "close", NoCtx, "", 0), Erase(dbName))
       ELSE /\ CloseLive(dbName)
            /\ lastOp' = OpOn(dbName, "close", NoCtx, "", 0)
            /\ lastResult' = ResultOk
            /\ activations' = <<>>
            /\ sqlLog' = <<>>
            /\ UNCHANGED <<running, concurrent>>

\* sqliteImportFile: when the name is open it calls sqliteCloseDb, which
\* closes and deletes the pool and erases the entry; dbMap[dbName] then
\* inserts a null pointer for the name, and importSQLFile is called through
\* it.
SqliteImportFile(dbName) ==
    /\ running
    /\ IF IsLive(dbName)
       THEN DeleteConnectionPool
       ELSE UNCHANGED <<maxReads, pool, history>>
    /\ lastOp' = OpOn(dbName, "import", NoCtx, "", 0)
    /\ activations' = <<>>
    /\ sqlLog' = <<>>
    /\ dbMap' = Insert(dbName, NullPool)
    /\ \/ running' = FALSE /\ UNCHANGED lastResult
       \/ running' = TRUE /\ lastResult' \in Results
    /\ UNCHANGED concurrent

\* The entry points that look the pool up and delegate to it: op is the
\* call, notOpen the result when the name is absent, delegate the pool
\* method's step.
Delegate(dbName, op, notOpen, delegate) ==
    /\ running
    /\ IF Count(dbName) = 0
       THEN ReturnEarly(op, notOpen)
       ELSE IF dbMap[dbName] = NullPool
       THEN NullCall(op, dbMap)
       ELSE delegate

RegistryRequestLock(dbName, contextId, lockType) ==
    Delegate(dbName,
             OpOn(dbName, IF lockType = "ReadLock" THEN "requestRead"
                                                   ELSE "requestWrite",
                  contextId, "", 0),
             generateNotOpenResult,
             SqliteRequestLock(contextId, lockType) /\ reuses' = 0)

\* sqliteReleaseLock returns nothing: on an absent name the result the
\* caller last saw stays.
RegistryReleaseLock(dbName, contextId) ==
    Delegate(dbName, OpOn(dbName, "release", contextId, "", 0), lastResult,
             SqliteReleaseLock(contextId))

RegistryExecuteInContext(dbName, contextId, task) ==
    Delegate(dbName, OpOn(dbName, "queueInContext", contextId, "", 0),
             generateNotOpenResult,
             SqliteQueueInContext(contextId, task))

RegistryExecuteLiteralInContext(dbName, contextId, task) ==
    Delegate(dbName, OpOn(dbName, "queueInContext", contextId, "", 0),
             ResultError(LiteralNotOpenMsg),
             SqliteQueueInContext(contextId, task))

RegistryAttachDb(dbName, alias, failAt) ==
    Delegate(dbName, OpOn(dbName, "attach", NoCtx, alias, 0),
             generateNotOpenResult,
             SqliteAttachDb(alias, failAt))

RegistryDetachDb(dbName, alias) ==
    Delegate(dbName, OpOn(dbName, "detach", NoCtx, alias, 0),
             generateNotOpenResult,
             SqliteDetachDb(alias))

\* ------------------------------------------------------- specifications
RequestLock ==
    \E contextId \in ContextIds, lockType \in LockTypes :
        SqliteRequestLock(contextId, lockType)

ReleaseLock == \E contextId \in ContextIds : SqliteReleaseLock(contextId)

RouteWork ==
    \E contextId \in ContextIds, task \in Tasks :
        SqliteQueueInContext(contextId, task)

Worker == \E c \in Connections : WorkerRun(c)

Attach ==
    \E alias \in Aliases, failAt \in 0..(maxReads + 1) :
        SqliteAttachDb(alias, failAt)

Detach == \E alias \in Aliases : SqliteDetachDb(alias)

\* A lock request by a caller that keeps to the contract of context IDs:
\* the ID it passes names no request that is still queued or granted.
RequestLockFresh == RequestLock /\ reuses' = 0

Next == RequestLock \/ ReleaseLock \/ RouteWork \/ Worker \/ Attach \/ Detach

NextLock == RequestLock \/ ReleaseLock

NextWork == RequestLockFresh \/ ReleaseLock \/ RouteWork \/ Worker

NextAttach == RequestLockFresh \/ ReleaseLock \/ Attach \/ Detach

\* Every entry point, any caller.
Spec == Init /\ [][Next]_vars

\* The lock protocol alone: requests and releases, any caller.
SpecLock == Init /\ [][NextLock]_vars

\* Locks and routed work, callers that keep context IDs unique.
SpecWork == Init /\ [][NextWork]_vars

\* Locks and attach / detach, callers that keep context IDs unique.
SpecAttach == Init /\ [][NextAttach]_vars

\* ---------------------------------------------- concurrent callers
\* readLock, writeLock and closeContext take no lock: when two threads are
\* inside them at once, their statements interleave. A thread's steps are
\* the test it makes of the slots and queues (check) and then each update
\* it makes: activateContext, push_back, erase, clearLock.
SetThread(t, pc, c) ==
    threads' = [threads EXCEPT ![t].pc = pc, ![t].conn = c]

Return(t) == threads' = [threads EXCEPT ![t] = Idle]

\* Thread t enters sqliteRequestLock with a context ID that is not in use:
\* it names no request that waits for its callback, no context the
\* callback has fired for and that was not released since, and nothing the
\* pool holds.
CallRequestLock(t, contextId, lockType) ==
    /\ running
    /\ threads[t].pc = "idle"
    /\ ~InUse(contextId)
    /\ contextId \notin called
    /\ \A j \in 1..Len(pending) : pending[j].ctx # contextId
    /\ Len(readQueue) < MaxQueue
    /\ Len(writeQueue) < MaxQueue
    /\ threads' = [threads EXCEPT ![t] = [pc |-> "check", op |-> lockType,
                                          ctx |-> contextId, conn |-> 0]]
    /\ pending' = Append(pending, [ctx |-> contextId, kind |-> lockType])
    /\ UNCHANGED <<maxReads, pool, activations, lastOp, lastResult, sqlLog,
                   reuses, readRun, registry, called>>

\* Thread t enters sqliteReleaseLock for a context the callback has fired
\* for.
CallReleaseLock(t, contextId) ==
    /\ running
    /\ threads[t].pc = "idle"
    /\ contextId \in called
    /\ threads' = [threads EXCEPT ![t] = [pc |-> "check", op |-> "release",
                                          ctx |-> contextId, conn |-> 0]]
    /\ called' = called \ {contextId}
    /\ UNCHANGED <<maxReads, pool, activations, lastOp, lastResult, sqlLog,
                   history, registry>>

\* The tests of writeLock, readLock and closeContext: the thread reads the
\* slots and the queue sizes and settles what it will do.
Check(t) ==
    LET contextId == threads[t].ctx
        op == threads[t].op IN
    /\ running
    /\ threads[t].pc = "check"
    /\ IF op = "WriteLock" \/ (op = "ReadLock" /\ ~IsConcurrencyEnabled)
       THEN IF IsEmptyLock(writeConnection)
            THEN SetThread(t, "activate", 0)
            ELSE SetThread(t, "push", 0)
       ELSE IF op = "ReadLock"
       THEN IF Len(readQueue) = 0 /\ EmptyReaders # {}
            THEN SetThread(t, "activate", FirstEmptyReader)
            ELSE SetThread(t, "push", 1)
       ELSE IF ContextState(contextId) = -1
            THEN Return(t)
            ELSE IF Len(QueueOfConn(ContextState(contextId))) > 0
                 THEN SetThread(t, "handOff", ContextState(contextId))
                 ELSE SetThread(t, "clear", ContextState(contextId))
    /\ UNCHANGED <<maxReads, pool, activations, lastOp, lastResult, sqlLog,
                   history, registry, called>>

\* activateContext(state, contextId) of readLock and writeLock.
Activate(t) ==
    /\ running
    /\ threads[t].pc = "activate"
    /\ ActivateContext(threads[t].conn, threads[t].ctx)
    /\ called' = called \cup {threads[t].ctx}
    /\ pending' = RemoveAll(pending, activations')
    /\ Return(t)
    /\ UNCHANGED <<maxReads, readQueue, writeQueue, lastOp, lastResult,
                   sqlLog, reuses, readRun, registry>>

\* readQueue.push_back(contextId) / writeQueue.push_back(contextId)
Push(t) ==
    /\ running
    /\ threads[t].pc = "push"
    /\ IF threads[t].conn = 0
       THEN /\ writeQueue' = PushBack(writeQueue, threads[t].ctx)
            /\ UNCHANGED readQueue
       ELSE /\ readQueue' = PushBack(readQueue, threads[t].ctx)
            /\ UNCHANGED writeQueue
    /\ Return(t)
    /\ UNCHANGED <<maxReads, writeConnection, readConnections, activations,
                   lastOp, lastResult, sqlLog, history, registry, called>>

\* activateContext(state, queue[0]) of closeContext. When another thread
\* has emptied the queue since the test, queue[0] reads past the end of
\* the vector: undefined behaviour, any context ID may come out.
HandOff(t) ==
    LET c == threads[t].conn
        queue == QueueOfConn(c) IN
    /\ running
    /\ threads[t].pc = "handOff"
    /\ \E contextId \in 1..MaxThreadCtx :
          /\ queue # <<>> => contextId = queue[1]
          /\ ActivateContext(c, contextId)
          /\ called' = called \cup {contextId}
    /\ pending' = RemoveAll(pending, activations')
    /\ SetThread(t, "erase", c)
    /\ UNCHANGED <<maxReads, readQueue, writeQueue, lastOp, lastResult,
                   sqlLog, reuses, readRun, registry>>

\* queue.erase(queue.begin()) of closeContext. On an empty vector it is
\* undefined behaviour: the process crashes, or the queue stays empty.
Erase1(t) ==
    LET c == threads[t].conn
        queue == QueueOfConn(c) IN
    /\ running
    /\ threads[t].pc = "erase"
    /\ IF queue # <<>>
       THEN /\ IF c = 0
               THEN writeQueue' = EraseBegin(writeQueue) /\ UNCHANGED readQueue
               ELSE readQueue' = EraseBegin(readQueue) /\ UNCHANGED writeQueue
            /\ UNCHANGED running
       ELSE /\ running' \in BOOLEAN
            /\ UNCHANGED <<readQueue, writeQueue>>
    /\ Return(t)
    /\ UNCHANGED <<maxReads, writeConnection, readConnections, activations,
                   lastOp, lastResult, sqlLog, history, dbMap, called>>

\* state->clearLock() of closeContext.
Clear(t) ==
    LET c == threads[t].conn IN
    /\ running
    /\ threads[t].pc = "clear"
    /\ IF c = 0
       THEN /\ writeConnection' = ClearLock(writeConnection)
            /\ UNCHANGED readConnections
       ELSE /\ readConnections' = [readConnections EXCEPT ![c] = ClearLock(@)]
            /\ UNCHANGED writeConnection
    /\ Return(t)
    /\ UNCHANGED <<maxReads, readQueue, writeQueue, activations, lastOp,
                   lastResult, sqlLog, history, registry, called>>

ThreadCalls ==
    \E t \in Threads, contextId \in 1..MaxThreadCtx :
        \/ \E lockType \in LockTypes : CallRequestLock(t, contextId, lockType)
        \/ CallReleaseLock(t, contextId)

ThreadSteps ==
    \E t \in Threads :
        Check(t) \/ Activate(t) \/ Push(t) \/ HandOff(t) \/ Erase1(t) \/ Clear(t)

NextThreads == ThreadCalls \/ ThreadSteps

\* Lock requests and releases made by two threads at once.
SpecThreads == Init /\ [][NextThreads]_vars

\* ------------------------------------------------- fair specification
\* The caller of a context that holds a lock slot releases it.
HolderReleases(contextId) ==
    /\ Holders(contextId) # {}
    /\ SqliteReleaseLock(contextId)

NextFair == RequestLockFresh \/ ReleaseLock

\* The lock protocol with callers that keep context IDs unique and that
\* release, sooner or later, every context that holds a lock slot.
SpecFair ==
    /\ Init
    /\ [][NextFair]_vars
    /\ \A contextId \in ContextIds : WF_vars(HolderReleases(contextId))

\* ------------------------------------------------ registry specification
\* The process starts with an empty dbMap and no pool.
InitRegistry ==
    /\ maxReads = 0
    /\ writeConnection = NewConnectionState
    /\ readConnections = <<>>
    /\ readQueue = <<>>
    /\ writeQueue = <<>>
    /\ activations = <<>>
    /\ lastOp = OpOn(TrackedDb, "start", NoCtx, "", 0)
    /\ lastResult = ResultOk
    /\ sqlLog = <<>>
    /\ pending = <<>>
    /\ reuses = 0
    /\ readRun = <<>>
    /\ dbMap = <<>>
    /\ running = TRUE
    /\ threads = [t \in Threads |-> Idle]
    /\ called = {}

OpenDb ==
    \E numReadConnections \in 0..MaxRegistryReads :
        SqliteOpenDb(TrackedDb, numReadConnections)

CloseDb == \E dbName \in DbNames : SqliteCloseDb(dbName)

ImportFile == \E dbName \in DbNames : SqliteImportFile(dbName)

RequestLockOn ==
    \E dbName \in DbNames, contextId \in 1..MaxRegistryCtx, lockType \in LockTypes :
        RegistryRequestLock(dbName, contextId, lockType)

ReleaseLockOn ==
    \E dbName \in DbNames, contextId \in 1..MaxRegistryCtx :
        RegistryReleaseLock(dbName, contextId)

ExecuteOn ==
    \E dbName \in DbNames, contextId \in 1..MaxRegistryCtx, task \in Tasks :
        RegistryExecuteInContext(dbName, contextId, task)

ExecuteLiteralOn ==
    \E dbName \in DbNames, contextId \in 1..MaxRegistryCtx, task \in Tasks :
        RegistryExecuteLiteralInContext(dbName, contextId, task)

AttachOn ==
    \E dbName \in DbNames, alias \in Aliases, failAt \in 0..(maxReads + 1) :
        RegistryAttachDb(dbName, alias, failAt)

DetachOn ==
    \E dbName \in DbNames, alias \in Aliases :
        RegistryDetachDb(dbName, alias)

NextRegistry ==
    \/ OpenDb \/ CloseDb \/ ImportFile \/ RequestLockOn \/ ReleaseLockOn
    \/ ExecuteOn \/ ExecuteLiteralOn \/ AttachOn \/ DetachOn

\* The registry and every entry point that goes through it, callers that
\* keep context IDs unique.
SpecRegistry == InitRegistry /\ [][NextRegistry]_vars

\* ----------------------------------------------------------------- claims
\* The state of connection c after the step.
ConnNext(c) == IF c = 0 THEN writeConnection' ELSE readConnections'[c]

\* How many entries of the sequence s equal x.
Occurrences(s, x) == Cardinality({i \in 1..Len(s) : s[i] = x})

\* In how many places contextId is: lock slots it holds plus queue entries.
Places(contextId) ==
    Cardinality(Holders(contextId)) + Occurrences(readQueue, contextId)
        + Occurrences(writeQueue, contextId)

\* C1: after any sequence of lock requests and releases in which no request
\* names a context ID that is still queued or held, every context ID is in
\* at most one place: one entry of one wait queue, or the lock slot of one
\* connection.
C1_AtMostOnePlace ==
    reuses = 0 => \A contextId \in ContextIds : Places(contextId) <= 1

\* A release has just handed a slot to the head of a wait queue and another
\* context is still waiting.
C1_Witness ==
    /\ reuses = 0
    /\ lastOp.op = "release"
    /\ activations # <<>>
    /\ Len(readQueue) + Len(writeQueue) > 0

\* The position in the sequence of requests s of the one naming contextId.
PositionOf(s, contextId) == Min({j \in 1..Len(s) : s[j].ctx = contextId})

\* Every callback of the step answers the oldest request of its kind among
\* the requests before, which no callback had answered yet.
GrantsOldest(before) ==
    \A i \in 1..Len(activations') :
        /\ \E j \in 1..Len(before) : before[j].ctx = activations'[i].ctx
        /\ LET j == PositionOf(before, activations'[i].ctx) IN
           \A older \in 1..(j - 1) : before[older].kind # before[j].kind

\* C2: FIFO within a kind. Whenever a callback fires, it is for the request
\* submitted first among the requests of its kind that no callback has
\* answered: of two requests of one kind, the later one is never granted
\* before the earlier one. Stated for callers that keep context IDs unique,
\* since a callback names only the context ID.
C2_Fifo ==
    [][reuses' = 0 =>
        /\ \A contextId \in ContextIds, lockType \in LockTypes :
              SqliteRequestLock(contextId, lockType) =>
                 GrantsOldest(Append(pending, [ctx |-> contextId,
                                               kind |-> lockType]))
        /\ \A contextId \in ContextIds :
              SqliteReleaseLock(contextId) => GrantsOldest(pending)]_vars

\* With readers present, a release has handed the write slot to the first
\* of two waiting writers; the second still waits.
C2_Witness ==
    /\ reuses = 0
    /\ maxReads > 0
    /\ lastOp.op = "release"
    /\ activations # <<>>
    /\ activations[1].conn = 0
    /\ Len(writeQueue) > 0

\* The step makes a callback for the write connection.
GrantsWriter == \E i \in 1..Len(activations') : activations'[i].conn = 0

\* C3: while a context holds the write slot, a further write request is
\* appended to the write wait queue without a callback and without touching
\* the slot, and the only step that grants the write connection is the
\* release_lock of the context holding it.
C3_WriterExclusive ==
    [][~IsEmptyLock(writeConnection) =>
        /\ \A contextId \in ContextIds :
              SqliteRequestLock(contextId, "WriteLock") =>
                 /\ writeQueue' = Append(writeQueue, contextId)
                 /\ activations' = <<>>
                 /\ writeConnection' = writeConnection
        /\ \A contextId \in ContextIds, lockType \in LockTypes :
              SqliteRequestLock(contextId, lockType) => ~GrantsWriter
        /\ \A contextId \in ContextIds :
              SqliteReleaseLock(contextId) /\ GrantsWriter =>
                 MatchesLock(writeConnection, contextId)]_vars

\* A second writer has just been queued behind the holder of the write slot.
C3_Witness ==
    /\ lastOp.op = "requestWrite"
    /\ ~IsEmptyLock(writeConnection)
    /\ writeConnection.lock # lastOp.ctx
    /\ writeQueue # <<>>
    /\ writeQueue[Len(writeQueue)] = lastOp.ctx
    /\ activations = <<>>

\* The claim's run of read requests: readRun[i] went to reader i for i up to
\* maxReads, the readers beyond the run are idle, and the requests past the
\* maxReads-th wait in the read queue, in order.
ReadRunPlaced ==
    /\ \A i \in 1..Len(readRun) :
          i <= maxReads => MatchesLock(readConnections[i], readRun[i])
    /\ \A i \in 1..maxReads :
          i > Len(readRun) => IsEmptyLock(readConnections[i])
    /\ readQueue = SubSeq(readRun, maxReads + 1, Len(readRun))

\* The read request that was the last call got its callback at once, on the
\* reader of its rank, when its rank is at most maxReads, and none otherwise.
ReadRunCallback ==
    lastOp.op = "requestRead" /\ readRun # <<>> =>
        IF Len(readRun) <= maxReads
        THEN /\ Len(activations) = 1
             /\ activations[1].conn = Len(readRun)
             /\ activations[1].ctx = lastOp.ctx
        ELSE activations = <<>>

\* The step takes a context out of the read wait queue.
LeavesReadQueue == Len(readQueue') < Len(readQueue)

\* C4: on a pool with N > 0 readers, starting with all readers idle and the
\* read queue empty, the i-th of successive read requests with no release in
\* between is granted at once on reader i (the lowest idle one) for i <= N
\* and is queued for i > N; a queued read request leaves the queue only in a
\* release_lock of a context that holds a reader.
C4_ReaderParallelism ==
    /\ [](maxReads > 0 /\ readRun # Broken => ReadRunPlaced /\ ReadRunCallback)
    /\ [][maxReads > 0 /\ LeavesReadQueue =>
            \E contextId \in ContextIds :
                /\ SqliteReleaseLock(contextId)
                /\ MatchingReaders(contextId) # {}]_vars

\* On a pool of at least two readers, N read requests hold the N readers
\* and the (N+1)-th has just been queued.
C4_Witness ==
    /\ maxReads >= 2
    /\ reuses = 0
    /\ readRun # Broken
    /\ Len(readRun) = maxReads + 1
    /\ lastOp.op = "requestRead"
    /\ readQueue = <<lastOp.ctx>>

\* The connection closeContext(contextId) acts on: the write connection if
\* it holds contextId, else the first reader that does.
Released(contextId) == Min(Holders(contextId))

\* The wait queue that feeds connection c, before and after the step.
QueueOf(c) == IF c = 0 THEN writeQueue ELSE readQueue

QueueOfNext(c) == IF c = 0 THEN writeQueue' ELSE readQueue'

\* Everything but connection c and the wait queue that feeds it is unchanged.
OthersUnchanged(c) ==
    /\ \A x \in Connections \ {c} : ConnNext(x) = Conn(x)
    /\ IF c = 0 THEN readQueue' = readQueue ELSE writeQueue' = writeQueue

\* C5: release_lock by a context that holds a connection's slot advances
\* that connection's wait queue by exactly one. If the queue is non-empty
\* its head becomes the holder of the same connection, one callback fires
\* for it, and the queue loses exactly its head; if the queue is empty the
\* slot becomes empty and no callback fires. Nothing else changes. A
\* release_lock that follows a release_lock of the same context changes
\* nothing (for callers that keep context IDs unique).
C5_ReleaseAdvancesByOne ==
    [][\A contextId \in ContextIds :
         SqliteReleaseLock(contextId) =>
            /\ Holders(contextId) # {} =>
                  LET c == Released(contextId) IN
                  /\ OthersUnchanged(c)
                  /\ ConnNext(c).workQueue = Conn(c).workQueue
                  /\ IF QueueOf(c) # <<>>
                     THEN /\ ConnNext(c).lock = Head(QueueOf(c))
                          /\ QueueOfNext(c) = Tail(QueueOf(c))
                          /\ Len(activations') = 1
                          /\ activations'[1].ctx = Head(QueueOf(c))
                          /\ activations'[1].conn = c
                     ELSE /\ ConnNext(c).lock = NoCtx
                          /\ QueueOfNext(c) = <<>>
                          /\ activations' = <<>>
            /\ (reuses = 0 /\ lastOp.op = "release" /\ lastOp.ctx = contextId) =>
                  /\ UNCHANGED pool
                  /\ activations' = <<>>]_vars

\* A reader's holder has just released it to the head of the read queue,
\* and another context still waits behind.
C5_Witness ==
    /\ reuses = 0
    /\ lastOp.op = "release"
    /\ activations # <<>>
    /\ activations[1].conn >= 1
    /\ readQueue # <<>>

\* C6: release_lock with a context ID that holds no lock slot changes no
\* lock slot, no wait queue and no work queue, and fires no callback.
C6_ReleaseUnknownNoOp ==
    [][\A contextId \in ContextIds :
         SqliteReleaseLock(contextId) /\ Holders(contextId) = {} =>
            /\ UNCHANGED pool
            /\ activations' = <<>>]_vars

\* The last call released a context that is still waiting in a queue.
C6_Witness ==
    /\ reuses = 0
    /\ lastOp.op = "release"
    /\ activations = <<>>
    /\ lastOp.ctx \in Range(readQueue) \cup Range(writeQueue)

\* The context IDs of the requests in s.
Contexts(s) == {s[j].ctx : j \in 1..Len(s)}

\* What a step does with callbacks, given the requests before that no
\* callback had answered: at most one callback; it is for one of those
\* requests, whose context becomes the holder of the connection in this
\* step; every context that becomes a holder gets one; and the requests still
\* unanswered after the step are exactly the ones waiting in the queues.
CallbackAtGrant(before) ==
    /\ Len(activations') <= 1
    /\ \A i \in 1..Len(activations') :
          /\ activations'[i].ctx \in Contexts(before)
          /\ ConnNext(activations'[i].conn).lock = activations'[i].ctx
          /\ Conn(activations'[i].conn).lock # activations'[i].ctx
    /\ \A c \in Connections :
          ConnNext(c).lock # Conn(c).lock /\ ConnNext(c).lock # NoCtx =>
             /\ Len(activations') = 1
             /\ activations'[1].conn = c
             /\ activations'[1].ctx = ConnNext(c).lock
    /\ Contexts(pending') = Range(readQueue') \cup Range(writeQueue')
    /\ Len(pending') = Len(readQueue') + Len(writeQueue')

\* C7: the callback fires once per request: in the step in which the
\* request's context becomes the holder of a lock slot (the request itself or
\* the release that hands the slot over), for no context that is not the new
\* holder, and not again, since a request the callback has answered is no
\* longer among the unanswered ones; a request not yet answered is waiting in
\* a queue. Stated for callers that keep context IDs unique.
C7_CallbackOncePerGrant ==
    [][reuses' = 0 =>
        /\ \A contextId \in ContextIds, lockType \in LockTypes :
              SqliteRequestLock(contextId, lockType) =>
                 CallbackAtGrant(Append(pending, [ctx |-> contextId,
                                                  kind |-> lockType]))
        /\ \A contextId \in ContextIds :
              SqliteReleaseLock(contextId) => CallbackAtGrant(pending)]_vars

\* A release has just granted the last waiting request.
C7_Witness ==
    /\ reuses = 0
    /\ lastOp.op = "release"
    /\ activations # <<>>
    /\ pending = <<>>
    /\ readQueue = <<>>
    /\ writeQueue = <<>>

\* C8: queue_in_context(contextId, task) appends the task to the work queue
\* of the connection whose lock slot holds contextId, changes no other
\* connection, and returns Ok; when contextId holds no slot (it waits in a
\* queue, was released, or was never requested) it returns the error
\* "Context is no longer available" and changes no connection.
C8_RouteToHolder ==
    [][\A contextId \in ContextIds, task \in Tasks :
         SqliteQueueInContext(contextId, task) =>
            IF Holders(contextId) = {}
            THEN /\ lastResult' = [type |-> SQLiteError,
                                   errorMessage |-> NotAvailableMsg]
                 /\ UNCHANGED <<writeConnection, readConnections>>
            ELSE /\ lastResult'.type = SQLiteOk
                 /\ \E c \in Holders(contextId) :
                       /\ ConnNext(c).workQueue =
                             Append(Conn(c).workQueue, task)
                       /\ ConnNext(c).lock = Conn(c).lock
                       /\ \A x \in Connections \ {c} : ConnNext(x) = Conn(x)]_vars

\* A task has just been routed to the reader that holds the context.
C8_Witness ==
    /\ lastOp.op = "queueInContext"
    /\ lastResult.type = SQLiteOk
    /\ \E i \in 1..maxReads :
          /\ MatchesLock(readConnections[i], lastOp.ctx)
          /\ readConnections[i].workQueue # <<>>

\* Some connection of the pool has a non-empty lock slot.
SomeLocked == \E c \in Connections : ~IsEmptyLock(Conn(c))

\* C9: after attach or detach, the call returned the "locked" error having
\* run no statement if some connection's lock slot was non-empty, and it ran
\* its statement (it went past the lock check) if every slot was empty.
\* Neither call changes a lock slot, so the slots are those the call found.
C9_FailsIffLocked ==
    lastOp.op \in {"attach", "detach"} =>
        IF SomeLocked
        THEN /\ lastResult = [type |-> SQLiteError, errorMessage |-> LockedMsg]
             /\ sqlLog = <<>>
        ELSE /\ lastResult.errorMessage # LockedMsg
             /\ sqlLog # <<>>

\* The last call was an attach that went past its lock check and returned
\* an error: ATTACH failed on some connection.
AttachFailed ==
    /\ lastOp.op = "attach"
    /\ lastResult = [type |-> SQLiteError, errorMessage |-> SqlFailedMsg]

\* C10: when an attach that passed its lock check returns an error because
\* ATTACH failed on the k-th connection, the alias is attached on no
\* connection of the pool, whatever k (DETACH succeeds on a connection
\* exactly when the alias is attached there).
C10_AttachReverted ==
    AttachFailed => \A c \in Connections : lastOp.alias \notin Conn(c).connection

\* ATTACH succeeded on the write connection and on every reader but the
\* last, failed on the last reader, and the call has returned.
C10_Witness ==
    /\ AttachFailed
    /\ maxReads >= 1
    /\ Len(sqlLog) > maxReads + 1
    /\ \A k \in 1..maxReads : sqlLog[k] = [conn |-> k - 1, sql |-> "ATTACH",
                                            ok |-> TRUE]
    /\ sqlLog[maxReads + 1] = [conn |-> maxReads, sql |-> "ATTACH", ok |-> FALSE]

\* C11: import_file on a database name that is open leaves the name mapped
\* to the same pool, which is still there with its lock slots and wait
\* queues (the import works on the write connection of that pool; it does
\* not close the database), and the process goes on.
C11_ImportKeepsPool ==
    [][\A dbName \in DbNames :
         SqliteImportFile(dbName) /\ IsLive(dbName) =>
            /\ running'
            /\ dbMap' = dbMap
            /\ maxReads' = maxReads
            /\ readQueue' = readQueue
            /\ writeQueue' = writeQueue
            /\ \A c \in Connections : ConnNext(c).lock = Conn(c).lock]_vars

\* The context IDs of the requests in s, in order.
ContextsInOrder(s) == [j \in 1..Len(s) |-> s[j].ctx]

\* C12: on a pool opened with no read connections every lock request is
\* served by the write connection. The read wait queue is always empty and
\* the requests no callback has answered wait in the write queue in the
\* order they were made, reads and writes alike (for callers that keep
\* context IDs unique). A read request is granted at once on the write
\* connection when its slot is empty and is appended to the write queue
\* otherwise. At most one context holds a lock: a callback fires only for
\* the write connection, when its slot is empty or in the release_lock of
\* the context that holds it.
C12_NoReadersAllOnWriter ==
    /\ [](maxReads = 0 =>
            /\ readQueue = <<>>
            /\ reuses = 0 => writeQueue = ContextsInOrder(pending))
    /\ [][maxReads = 0 =>
            /\ \A contextId \in ContextIds :
                  SqliteRequestLock(contextId, "ReadLock") =>
                     IF IsEmptyLock(writeConnection)
                     THEN /\ writeConnection'.lock = contextId
                          /\ writeQueue' = writeQueue
                          /\ Len(activations') = 1
                          /\ activations'[1].conn = 0
                          /\ activations'[1].ctx = contextId
                     ELSE /\ writeConnection' = writeConnection
                          /\ writeQueue' = Append(writeQueue, contextId)
                          /\ activations' = <<>>
            /\ \A i \in 1..Len(activations') :
                  /\ activations'[i].conn = 0
                  /\ \/ IsEmptyLock(writeConnection)
                     \/ SqliteReleaseLock(writeConnection.lock)]_vars

\* On a pool without readers, a read request has just been queued behind a
\* write request in the write queue.
C12_Witness ==
    /\ maxReads = 0
    /\ reuses = 0
    /\ lastOp.op = "requestRead"
    /\ Len(pending) = 2
    /\ pending[1].kind = "WriteLock"
    /\ pending[2].kind = "ReadLock"
    /\ writeQueue = <<pending[1].ctx, lastOp.ctx>>

\* C13: open on a name that is in the registry returns the "is already
\* open" error and changes nothing: the registry, the pool's lock slots,
\* wait queues and work queues stay as they were and no callback fires.
\* Open on an absent name returns Ok and adds exactly one entry, for that
\* name, mapped to a new pool with the number of readers asked for, every
\* lock slot empty and both wait queues empty.
C13_OpenTwiceFails ==
    [][\A dbName \in DbNames, numReadConnections \in 0..MaxRegistryReads :
         SqliteOpenDb(dbName, numReadConnections) =>
            IF dbName \in DOMAIN dbMap
            THEN /\ lastResult' = [type |-> SQLiteError,
                                   errorMessage |-> AlreadyOpenMsg]
                 /\ dbMap' = dbMap
                 /\ UNCHANGED <<maxReads, pool>>
                 /\ activations' = <<>>
            ELSE /\ lastResult'.type = SQLiteOk
                 /\ DOMAIN dbMap' = DOMAIN dbMap \cup {dbName}
                 /\ \A n \in DOMAIN dbMap : dbMap'[n] = dbMap[n]
                 /\ dbMap'[dbName] = LivePool
                 /\ maxReads' = numReadConnections
                 /\ IsEmptyLock(writeConnection')
                 /\ \A i \in 1..numReadConnections :
                       IsEmptyLock(readConnections'[i])
                 /\ readQueue' = <<>>
                 /\ writeQueue' = <<>>
                 /\ activations' = <<>>]_vars

\* A second open of a database has just been refused while a context holds
\* its write connection and another waits for it.
C13_Witness ==
    /\ lastOp.op = "open"
    /\ lastResult = [type |-> SQLiteError, errorMessage |-> AlreadyOpenMsg]
    /\ IsLive(lastOp.db)
    /\ ~IsEmptyLock(writeConnection)
    /\ writeQueue # <<>>

\* The step touches neither the registry nor the pool and fires no callback.
NothingTouched ==
    /\ dbMap' = dbMap
    /\ UNCHANGED <<maxReads, pool>>
    /\ activations' = <<>>
    /\ sqlLog' = <<>>

\* The step returns a "not open" error and touches nothing.
ReturnsNotOpen ==
    /\ lastResult'.type = SQLiteError
    /\ lastResult'.errorMessage \in {NotOpenMsg, LiteralNotOpenMsg}
    /\ NothingTouched

\* C14: for a database name that is not in the registry, close,
\* request_lock, execute_in_context, execute_literal_in_context, attach and
\* detach return a "not open" error and release_lock returns without a
\* result; none of them adds a registry entry, touches a pool or fires a
\* callback. After a close that returned Ok the name is absent, and an open
\* of it then returns Ok and maps it to a pool.
C14_NotOpen ==
    /\ [](running /\ lastOp.op = "close" /\ lastResult.type = SQLiteOk =>
             lastOp.db \notin DOMAIN dbMap)
    /\ [][/\ \A dbName \in DbNames \ DOMAIN dbMap :
               /\ SqliteCloseDb(dbName) => ReturnsNotOpen
               /\ \A contextId \in ContextIds :
                     /\ \A lockType \in LockTypes :
                           RegistryRequestLock(dbName, contextId, lockType)
                              => ReturnsNotOpen
                     /\ \A task \in Tasks :
                           /\ RegistryExecuteInContext(dbName, contextId, task)
                                 => ReturnsNotOpen
                           /\ RegistryExecuteLiteralInContext(dbName, contextId,
                                                              task)
                                 => ReturnsNotOpen
                     /\ RegistryReleaseLock(dbName, contextId) =>
                           /\ NothingTouched
                           /\ lastResult' = lastResult
               /\ \A alias \in Aliases :
                     /\ \A failAt \in 0..(maxReads + 1) :
                           RegistryAttachDb(dbName, alias, failAt)
                              => ReturnsNotOpen
                     /\ RegistryDetachDb(dbName, alias) => ReturnsNotOpen
          /\ \A numReadConnections \in 0..MaxRegistryReads :
               /\ lastOp.op = "close"
               /\ lastResult.type = SQLiteOk
               /\ SqliteOpenDb(lastOp.db, numReadConnections)
               => /\ lastResult'.type = SQLiteOk
                  /\ IsLive(lastOp.db)']_vars

\* A lock request on a name that is not open has just been refused, while
\* another database is open and a context holds its write connection.
C14_Witness ==
    /\ lastOp.op = "requestWrite"
    /\ lastOp.db \notin DOMAIN dbMap
    /\ lastResult = [type |-> SQLiteError, errorMessage |-> NotOpenMsg]
    /\ IsLive(TrackedDb)
    /\ ~IsEmptyLock(writeConnection)

\* The request of contextId has returned and no callback has answered it.
Waiting(contextId) == contextId \in Contexts(pending)

\* The callback has just fired for contextId, which holds a lock slot.
JustGranted(contextId) ==
    /\ \E i \in 1..Len(activations) : activations[i].ctx = contextId
    /\ Holders(contextId) # {}

\* C15: no starvation. When callers release every context that holds a
\* lock slot, a request that returned without its callback (it waits in a
\* queue) is eventually granted: its callback fires and it holds a slot.
\* This is so for read and for write requests, on pools with and without
\* read connections.
C15_NoStarvation ==
    \A contextId \in ContextIds : Waiting(contextId) ~> JustGranted(contextId)

\* The last reader of a pool has just been handed to the only request that
\* was waiting, by the release of the context that held it.
C15_Witness ==
    /\ maxReads >= 1
    /\ lastOp.op = "release"
    /\ Len(activations) = 1
    /\ activations[1].conn = maxReads
    /\ activations[1].queued
    /\ pending = <<>>

\* No thread is inside a pool method.
Quiescent == \A t \in Threads : threads[t].pc = "idle"

\* C16: with request_lock and release_lock called from two threads at
\* once, every call acts as one atomic step. Every context the callback
\* has fired for, and that release_lock was not called for since, holds
\* exactly one lock slot (so no two requests were granted the same slot),
\* and once the calls have returned every request the callback has not
\* answered waits in a queue (no request is lost).
C16_AtomicLockSteps ==
    /\ \A contextId \in called : Cardinality(Holders(contextId)) = 1
    /\ Quiescent =>
          \A j \in 1..Len(pending) :
              pending[j].ctx \in Range(readQueue) \cup Range(writeQueue)

\* C17: a connection's SQLite handle is used only by the connection's own
\* worker thread: no pool operation (open with its update hook, routed
\* work, attach, detach) calls SQLite on a handle from the caller's thread.
C17_HandleOnlyOnWorker == sqlLog = <<>>

\* C18: every activate_lock the pool calls finds the connection's lock
\* slot empty, on the immediate grant of a request and on the hand-off of a
\* release (also for callers that keep context IDs unique).
C18_ActivateOnEmptySlot ==
    reuses = 0 =>
        \A i \in 1..Len(activations) : activations[i].slotBefore = NoCtx

\* C19: when the callback fires for a context, the context holds exactly
\* one lock slot and is in no wait queue, on an immediate grant and on a
\* hand-off alike (for callers that keep context IDs unique).
C19_GrantedNotQueued ==
    reuses = 0 =>
        \A i \in 1..Len(activations) :
            /\ ~activations[i].queued
            /\ Cardinality(Holders(activations[i].ctx)) = 1

\* C20: no idle connection while requests wait. A non-empty write queue
\* means the write connection's slot is occupied, and a non-empty read
\* queue means the slot of every read connection is occupied.
C20_NoIdleWhileWaiting ==
    /\ writeQueue # <<>> => ~IsEmptyLock(writeConnection)
    /\ readQueue # <<>> =>
          \A i \in 1..maxReads : ~IsEmptyLock(readConnections[i])

\* The write connection has just been released with no writer waiting,
\* while a read request waits for the readers, which are all held.
C20_Witness ==
    /\ maxReads >= 1
    /\ reuses = 0
    /\ lastOp.op = "release"
    /\ IsEmptyLock(writeConnection)
    /\ readQueue # <<>>

\* contextId waits in a wait queue and holds no lock slot.
InQueue(contextId) ==
    /\ contextId \in Range(readQueue) \cup Range(writeQueue)
    /\ Holders(contextId) = {}

\* release_lock has just been called for contextId while it was waiting.
ReleasedWhileWaiting(contextId) ==
    /\ lastOp.op = "release"
    /\ lastOp.ctx = contextId
    /\ InQueue(contextId)

\* C21: release_lock does not cancel a pending request. Called for a
\* context that waits in a queue, it leaves both queues (so the context's
\* position) and every slot as they were and fires no callback; the context
\* is granted later all the same, when callers release the contexts that
\* hold slots; and a context that holds a slot loses it only in a
\* release_lock called for that context.
C21_ReleaseDoesNotCancel ==
    /\ [][\A contextId \in ContextIds :
            /\ SqliteReleaseLock(contextId) /\ InQueue(contextId) =>
                  /\ UNCHANGED pool
                  /\ activations' = <<>>
            /\ \A c \in Connections :
                  Conn(c).lock = contextId /\ ConnNext(c).lock # contextId =>
                     SqliteReleaseLock(contextId)]_vars
    /\ \A contextId \in ContextIds :
          ReleasedWhileWaiting(contextId) ~> JustGranted(contextId)

\* release_lock has just been called for the context that is second in the
\* write queue, and it is still second.
C21_Witness ==
    /\ lastOp.op = "release"
    /\ Len(writeQueue) = 2
    /\ writeQueue[2] = lastOp.ctx
    /\ Holders(lastOp.ctx) = {}
    /\ activations = <<>>

====
